---- MODULE Spec2Model ----
(***************************************************************************)
(* Model of scripts/process_devices.py: scraping of the releases page,     *)
(* the walk over targets and subtargets, the profiles.json fallback chain, *)
(* the mapping of profiles documents to device records, and the final      *)
(* sort and write of devices.json.                                         *)
(*                                                                         *)
(* A Python str is a sequence of one-character strings; it is ordered as   *)
(* Python orders str, by code point, a proper prefix being smaller.        *)
(***************************************************************************)
EXTENDS Integers, Sequences, FiniteSets, TLC

\* ------------------------------------------------------------------------
\* Bounds of the model
\* ------------------------------------------------------------------------
\* longest list of hrefs on the releases page (discovery specification)
MaxLinks == 3
\* most (target, subtarget) units walked in one run
MaxUnits == 2

\* ------------------------------------------------------------------------
\* Python str
\* ------------------------------------------------------------------------
\* the printable ASCII characters, code points 32 .. 126, in order (the
\* grave accent, code point 96, is spelled out)
Ascii ==
  << " ", "!", "\"", "#", "$", "%", "&", "'", "(", ")", "*", "+", ",", "-",
     ".", "/", "0", "1", "2", "3", "4", "5", "6", "7", "8", "9", ":", ";",
     "<", "=", ">", "?", "@", "A", "B", "C", "D", "E", "F", "G", "H", "I",
     "J", "K", "L", "M", "N", "O", "P", "Q", "R", "S", "T", "U", "V", "W",
     "X", "Y", "Z", "[", "\\", "]", "^", "_", "GRAVE", "a", "b", "c", "d", "e",
     "f", "g", "h", "i", "j", "k", "l", "m", "n", "o", "p", "q", "r", "s",
     "t", "u", "v", "w", "x", "y", "z", "{", "|", "}", "~" >>

\* ord(c)
Ord(c) == 31 + CHOOSE i \in 1..Len(Ascii) : Ascii[i] = c

\* chr(n)
Chr(n) == Ascii[n - 31]

IsDigit(c) == c \in {"0", "1", "2", "3", "4", "5", "6", "7", "8", "9"}

IsLower(c) == Ord(c) >= Ord("a") /\ Ord(c) <= Ord("z")

IsUpper(c) == Ord(c) >= Ord("A") /\ Ord(c) <= Ord("Z")

ToUpper(c) == IF IsLower(c) THEN Chr(Ord(c) - (Ord("a") - Ord("A"))) ELSE c

ToLower(c) == IF IsUpper(c) THEN Chr(Ord(c) + (Ord("a") - Ord("A"))) ELSE c

\* a < b on str
RECURSIVE StrLess(_, _)
StrLess(a, b) ==
  IF b = <<>> THEN FALSE
  ELSE IF a = <<>> THEN TRUE
  ELSE IF Head(a) = Head(b) THEN StrLess(Tail(a), Tail(b))
  ELSE Ord(Head(a)) < Ord(Head(b))

\* s.endswith(suffix), s.startswith(prefix), for a one-character argument
EndsWith(s, c) == Len(s) > 0 /\ s[Len(s)] = c

StartsWith(s, c) == Len(s) > 0 /\ s[1] = c

\* s.split(sep), for a one-character sep
RECURSIVE SplitFrom(_, _, _)
SplitFrom(s, sep, cur) ==
  IF s = <<>> THEN <<cur>>
  ELSE IF Head(s) = sep THEN <<cur>> \o SplitFrom(Tail(s), sep, <<>>)
  ELSE SplitFrom(Tail(s), sep, Append(cur, Head(s)))

Split(s, sep) == SplitFrom(s, sep, <<>>)

\* sep.join(parts), for a one-character sep
RECURSIVE Join(_, _)
Join(parts, sep) ==
  IF parts = <<>> THEN <<>>
  ELSE IF Len(parts) = 1 THEN parts[1]
  ELSE parts[1] \o <<sep>> \o Join(Tail(parts), sep)

\* s.replace(old, new), for one-character old and new
Replace(s, old, new) == [i \in 1..Len(s) |-> IF s[i] = old THEN new ELSE s[i]]

\* s.strip(chars): leading and trailing characters of the set removed
RECURSIVE LStrip(_, _)
LStrip(s, chars) ==
  IF s # <<>> /\ Head(s) \in chars THEN LStrip(Tail(s), chars) ELSE s

RECURSIVE RStrip(_, _)
RStrip(s, chars) ==
  IF s # <<>> /\ s[Len(s)] \in chars
  THEN RStrip(SubSeq(s, 1, Len(s) - 1), chars) ELSE s

Strip(s, chars) == RStrip(LStrip(s, chars), chars)

\* the whitespace of the alphabet, what s.strip() removes
Whitespace == {" "}

\* s.title(): a cased character is upper-cased after an uncased one and
\* lower-cased after a cased one
RECURSIVE TitleFrom(_, _)
TitleFrom(s, prevCased) ==
  IF s = <<>> THEN <<>>
  ELSE LET c == Head(s) IN
    IF IsLower(c)
    THEN <<(IF prevCased THEN c ELSE ToUpper(c))>> \o TitleFrom(Tail(s), TRUE)
    ELSE IF IsUpper(c)
    THEN <<(IF prevCased THEN ToLower(c) ELSE c)>> \o TitleFrom(Tail(s), TRUE)
    ELSE <<c>> \o TitleFrom(Tail(s), FALSE)

Title(s) == TitleFrom(s, FALSE)

\* ------------------------------------------------------------------------
\* Version discovery: LinkFinder and get_latest_point_releases
\* ------------------------------------------------------------------------
SUPPORTED_MAJOR_VERSIONS ==
  << <<"2", "4", ".", "1", "0">>, <<"2", "3", ".", "0", "5">>,
     <<"2", "2", ".", "0", "3">>, <<"2", "1", ".", "0", "2">> >>

InSeq(x, seq) == \E i \in 1..Len(seq) : seq[i] = x

\* LinkFinder.handle_starttag over the hrefs of a page: directory links only
RECURSIVE LinkFinder(_)
LinkFinder(hrefs) ==
  IF hrefs = <<>> THEN <<>>
  ELSE IF EndsWith(Head(hrefs), "/")
       THEN <<Head(hrefs)>> \o LinkFinder(Tail(hrefs))
       ELSE LinkFinder(Tail(hrefs))

AllDigits(s) == s # <<>> /\ \A i \in 1..Len(s) : IsDigit(s[i])

\* version_pattern.match(link): ^(\d+\.\d+\.\d+)/$
VersionPatternMatches(link) ==
  /\ EndsWith(link, "/")
  /\ LET parts == Split(SubSeq(link, 1, Len(link) - 1), ".")
     IN  Len(parts) = 3 /\ \A i \in 1..3 : AllDigits(parts[i])

\* match.group(1)
FullVersion(link) == SubSeq(link, 1, Len(link) - 1)

\* '.'.join(full_version.split('.')[:2])
MajorVersion(full_version) ==
  LET parts == Split(full_version, ".")
  IN  Join(SubSeq(parts, 1, IF Len(parts) < 2 THEN Len(parts) ELSE 2), ".")

\* latest_releases is a dict in insertion order: a sequence of entries
HasKey(releases, major) == \E i \in 1..Len(releases) : releases[i].major = major

Lookup(releases, major) ==
  releases[CHOOSE i \in 1..Len(releases) : releases[i].major = major].version

SetKey(releases, major, version) ==
  IF HasKey(releases, major)
  THEN [i \in 1..Len(releases) |->
          IF releases[i].major = major
          THEN [major |-> major, version |-> version] ELSE releases[i]]
  ELSE Append(releases, [major |-> major, version |-> version])

\* the test of line 54 with the comparison turned round: the smallest
\* version of a major version would be kept
IsNewerFlipped(releases, major, full_version) ==
  \/ ~HasKey(releases, major)
  \/ StrLess(full_version, Lookup(releases, major))

\* the test of line 54: the entry is new or the version is greater
IsNewer(releases, major, full_version) ==
  \/ ~HasKey(releases, major)
  \/ StrLess(Lookup(releases, major), full_version)

\* one iteration of the loop of lines 47-55
ScanOne(releases, link) ==
  IF VersionPatternMatches(link)
  THEN LET full_version == FullVersion(link)
           major_version == MajorVersion(full_version)
       IN  IF /\ InSeq(major_version, SUPPORTED_MAJOR_VERSIONS)
              /\ IsNewer(releases, major_version, full_version)
           THEN SetKey(releases, major_version, full_version)
           ELSE releases
  ELSE releases

\* ------------------------------------------------------------------------
\* JSON values as json.loads returns them
\* ------------------------------------------------------------------------
\* k is the Python type, s the text of a str, n the value of an int or bool,
\* keys and items the keys (in document order) and values of a dict, items
\* the elements of a list
JNull == [k |-> "null", s |-> <<>>, n |-> 0, keys |-> <<>>, items |-> <<>>]

JBool(b) == [k |-> "bool", s |-> <<>>, n |-> IF b THEN 1 ELSE 0,
             keys |-> <<>>, items |-> <<>>]

JNum(n) == [k |-> "int", s |-> <<>>, n |-> n, keys |-> <<>>, items |-> <<>>]

JStr(s) == [k |-> "str", s |-> s, n |-> 0, keys |-> <<>>, items |-> <<>>]

JList(items) == [k |-> "list", s |-> <<>>, n |-> 0, keys |-> <<>>,
                 items |-> items]

JObj(keys, items) == [k |-> "dict", s |-> <<>>, n |-> 0, keys |-> keys,
                      items |-> items]

\* bool(v)
Truthy(v) ==
  CASE v.k = "null" -> FALSE
    [] v.k = "bool" -> v.n # 0
    [] v.k = "int"  -> v.n # 0
    [] v.k = "str"  -> v.s # <<>>
    [] v.k = "list" -> v.items # <<>>
    [] v.k = "dict" -> v.keys # <<>>

\* d.get(key, default) on a dict
Get(d, key, default) ==
  IF \E i \in 1..Len(d.keys) : d.keys[i] = key
  THEN d.items[CHOOSE i \in 1..Len(d.keys) : d.keys[i] = key]
  ELSE default

\* f"{v}" for the values the documents of the model hold
Format(v) ==
  CASE v.k = "str"  -> v.s
    [] v.k = "null" -> <<"N", "o", "n", "e">>
    [] v.k = "bool" -> IF v.n # 0 THEN <<"T", "r", "u", "e">>
                                  ELSE <<"F", "a", "l", "s", "e">>
    [] v.k = "int" /\ v.n \in 0..9 -> <<Chr(Ord("0") + v.n)>>

\* the keys the script reads
K_arch_packages ==
  <<"a", "r", "c", "h", "_", "p", "a", "c", "k", "a", "g", "e", "s">>

K_profiles == <<"p", "r", "o", "f", "i", "l", "e", "s">>

K_titles == <<"t", "i", "t", "l", "e", "s">>

K_vendor == <<"v", "e", "n", "d", "o", "r">>

K_model == <<"m", "o", "d", "e", "l">>

S_Generic == <<"G", "e", "n", "e", "r", "i", "c">>

\* ------------------------------------------------------------------------
\* fetch_and_decompress_profiles: one attempt
\* ------------------------------------------------------------------------
\* the attempts with gzip tried before the plain document
attemptsGzipFirst ==
  << [extension |-> ".json.gz", decompressor |-> "gzip.decompress"],
     [extension |-> ".json",    decompressor |-> "none"],
     [extension |-> ".json.xz", decompressor |-> "lzma.decompress"] >>

\* the order of attempts of lines 82-86
attempts ==
  << [extension |-> ".json",    decompressor |-> "none"],
     [extension |-> ".json.gz", decompressor |-> "gzip.decompress"],
     [extension |-> ".json.xz", decompressor |-> "lzma.decompress"] >>

\* the exceptions the except clause of line 98 catches
CaughtExceptions ==
  {"RequestException", "BadGzipFile", "LZMAError", "JSONDecodeError"}

\* A response body: enc is the container the bytes are in ("plain", "gz",
\* "xz"), integrity the state of the compressed stream ("ok", "truncated",
\* "corrupt", "badcrc"), text what the payload is ("json", "badjson",
\* "badutf8") and doc the JSON value of a "json" payload.
\* decompressor(content): the exception raised, or the payload.  Without a
\* decompressor the bytes are kept, and gzip or xz bytes (magic 1f 8b,
\* fd 37 7a) are not UTF-8.
Decompress(decompressor, body) ==
  CASE decompressor = "none" ->
         [exc |-> "none",
          text |-> IF body.enc = "plain" THEN body.text ELSE "badutf8"]
    [] decompressor = "gzip.decompress" ->
         IF body.enc # "gz" THEN [exc |-> "BadGzipFile", text |-> "none"]
         ELSE IF body.integrity = "ok" THEN [exc |-> "none", text |-> body.text]
         ELSE IF body.integrity = "truncated"
         THEN [exc |-> "EOFError", text |-> "none"]
         ELSE IF body.integrity = "corrupt"
         THEN [exc |-> "zlib.error", text |-> "none"]
         ELSE [exc |-> "BadGzipFile", text |-> "none"]
    [] decompressor = "lzma.decompress" ->
         IF body.enc = "xz" /\ body.integrity = "ok"
         THEN [exc |-> "none", text |-> body.text]
         ELSE [exc |-> "LZMAError", text |-> "none"]

\* json.loads(content.decode("utf-8")): the exception raised, if any
LoadsException(text) ==
  CASE text = "badutf8" -> "UnicodeDecodeError"
    [] text = "badjson" -> "JSONDecodeError"
    [] text = "json"    -> "none"

\* the exception one attempt raises inside the try of lines 90-97, "none"
\* when it raises none
AttemptException(resp, decompressor) ==
  IF resp.status = "exc" THEN "RequestException"
  ELSE IF resp.status # "200" THEN "none"
  ELSE LET d == Decompress(decompressor, resp.body)
       IN  IF d.exc # "none" THEN d.exc ELSE LoadsException(d.text)

\* the attempt reaches the return of line 97
AttemptReturns(resp, decompressor) ==
  resp.status = "200" /\ AttemptException(resp, decompressor) = "none"

\* ------------------------------------------------------------------------
\* fetch_all_devices_from_structure: one profiles document to device records
\* ------------------------------------------------------------------------
\* get_subdirectories(url) on the listing the server answers with
GetSubdirectories(listing) ==
  IF ~listing.ok THEN <<>>
  ELSE LET found == LinkFinder(listing.hrefs)
       IN  SelectSeq(found, LAMBDA link : ~StartsWith(link, "?") /\ link # <<"/">>)

\* target_path of line 128
TargetPath(target_dir, subtarget_dir) ==
  Strip(target_dir, {"/"}) \o <<"/">> \o Strip(subtarget_dir, {"/"})

\* the test of line 140 with any() for all(): one of the two would do
HasArchOrProfiles(arch, profiles) == Truthy(arch) \/ Truthy(profiles)

\* the test of line 140, all([arch, profiles])
HasArchAndProfiles(arch, profiles) == Truthy(arch) /\ Truthy(profiles)

Device(title, target, profile, version, arch) ==
  [title |-> title, target |-> target, profile |-> profile,
   version |-> version, arch |-> arch]

\* full_title of lines 153-156
FullTitle(title_info, profile_id) ==
  LET vendor == Get(title_info, K_vendor, JStr(S_Generic))
      model  == Get(title_info, K_model, JStr(profile_id))
  IN  Strip(Format(vendor) \o <<" ">> \o Format(model), Whitespace)

\* the loop of lines 147-162 from entry i on; acc holds the records appended
\* so far, exc the exception that ends the loop early
RECURSIVE DictProfiles(_, _, _, _, _, _)
DictProfiles(profiles, target_path, version, arch, i, acc) ==
  IF i > Len(profiles.keys) THEN [devices |-> acc, exc |-> "none"]
  ELSE
    LET profile_id     == profiles.keys[i]
        device_details == profiles.items[i]
        titles_list    == Get(device_details, K_titles, JList(<<>>))
    IN  IF device_details.k # "dict"
        THEN DictProfiles(profiles, target_path, version, arch, i + 1, acc)
        ELSE IF ~Truthy(titles_list)
        THEN DictProfiles(profiles, target_path, version, arch, i + 1, acc)
        ELSE IF titles_list.k = "dict"
        THEN [devices |-> acc, exc |-> "KeyError"]
        ELSE IF titles_list.k \in {"int", "bool"}
        THEN [devices |-> acc, exc |-> "TypeError"]
        ELSE IF titles_list.k = "str" \/ titles_list.items[1].k # "dict"
        THEN [devices |-> acc, exc |-> "AttributeError"]
        ELSE DictProfiles(profiles, target_path, version, arch, i + 1,
               Append(acc, Device(FullTitle(titles_list.items[1], profile_id),
                                  target_path, profile_id, version, arch)))

\* title of line 167
HeuristicTitle(profile_string) ==
  Title(Replace(Replace(profile_string, "_", " "), "-", " "))

\* the loop of lines 165-172 from element i on
RECURSIVE ListProfiles(_, _, _, _, _, _)
ListProfiles(profiles, target_path, version, arch, i, acc) ==
  IF i > Len(profiles.items) THEN [devices |-> acc, exc |-> "none"]
  ELSE
    LET profile_string == profiles.items[i]
    IN  IF profile_string.k # "str"
        THEN [devices |-> acc, exc |-> "AttributeError"]
        ELSE ListProfiles(profiles, target_path, version, arch, i + 1,
               Append(acc, Device(HeuristicTitle(profile_string.s), target_path,
                                  profile_string.s, version, arch)))

\* lines 134-172 for one fetched document: the records appended and the
\* exception that propagates, "none" when none does
NormalizeUnit(profiles_data, target_path, version) ==
  IF ~Truthy(profiles_data) THEN [devices |-> <<>>, exc |-> "none"]
  ELSE IF profiles_data.k # "dict"
  THEN [devices |-> <<>>, exc |-> "AttributeError"]
  ELSE
    LET arch     == Get(profiles_data, K_arch_packages, JNull)
        profiles == Get(profiles_data, K_profiles, JNull)
    IN  IF ~HasArchAndProfiles(arch, profiles)
        THEN [devices |-> <<>>, exc |-> "none"]
        ELSE IF profiles.k = "dict"
        THEN DictProfiles(profiles, target_path, version, arch, 1, <<>>)
        ELSE IF profiles.k = "list"
        THEN ListProfiles(profiles, target_path, version, arch, 1, <<>>)
        ELSE [devices |-> <<>>, exc |-> "none"]

\* ------------------------------------------------------------------------
\* The sort of line 180
\* ------------------------------------------------------------------------
\* (a.title, a.version) < (b.title, b.version) as Python orders tuples
KeyLess(a, b) ==
  \/ StrLess(a.title, b.title)
  \/ a.title = b.title /\ StrLess(a.version, b.version)

\* x placed into a list already in sort order with reverse=True: after every
\* element whose key is not smaller, so that equal keys keep their order
InsertReverse(sorted, x) ==
  LET smaller == {j \in 1..Len(sorted) : KeyLess(sorted[j], x)}
      at == IF smaller = {} THEN Len(sorted) + 1
            ELSE CHOOSE j \in smaller : \A m \in smaller : j <= m
  IN  SubSeq(sorted, 1, at - 1) \o <<x>> \o SubSeq(sorted, at, Len(sorted))

\* list.sort(key=lambda x: (x['title'], x['version']), reverse=True)
RECURSIVE SortInto(_, _)
SortInto(sorted, rest) ==
  IF rest = <<>> THEN sorted
  ELSE SortInto(InsertReverse(sorted, Head(rest)), Tail(rest))

SortDevices(devices) == SortInto(<<>>, devices)

\* the test of line 176 left out: an empty list would be written
NoDevicesIgnored(devices) == FALSE

\* the test of line 176, not all_processed_devices
NoDevices(devices) == devices = <<>>

\* ------------------------------------------------------------------------
\* The upstream the model runs against
\* ------------------------------------------------------------------------
\* hrefs of directory listings
H_21_02_0 == <<"2", "1", ".", "0", "2", ".", "0", "/">>

H_21_02_7 == <<"2", "1", ".", "0", "2", ".", "7", "/">>

H_21_02_10 == <<"2", "1", ".", "0", "2", ".", "1", "0", "/">>

H_22_03_0 == <<"2", "2", ".", "0", "3", ".", "0", "/">>

H_23_05_3 == <<"2", "3", ".", "0", "5", ".", "3", "/">>

H_other == <<"o", "t", "h", "e", "r", "/">>

H_19_07_3 == <<"1", "9", ".", "0", "7", ".", "3", "/">>

H_21_02 == <<"2", "1", ".", "0", "2", "/">>

H_noslash == <<"2", "1", ".", "0", "2", ".", "7">>

H_four == <<"2", "1", ".", "0", "2", ".", "7", ".", "1", "/">>

H_sort == <<"?", "C", "=", "N", "/">>

H_ath79 == <<"a", "t", "h", "7", "9", "/">>

H_x86 == <<"x", "8", "6", "/">>

H_generic == <<"g", "e", "n", "e", "r", "i", "c", "/">>

H_nand == <<"n", "a", "n", "d", "/">>

\* strings of profiles documents
S_arm == <<"a", "r", "m">>

S_mips == <<"m", "i", "p", "s">>

S_dev1 == <<"d", "e", "v", "1">>

S_dev2 == <<"d", "e", "v", "2">>

S_Acme == <<"A", "c", "m", "e">>

S_X1 == <<"X", "1">>

S_Bolt == <<"B", "o", "l", "t">>

S_Z9 == <<"Z", "9">>

S_title == <<"t", "i", "t", "l", "e">>

S_Old_Box == <<"O", "l", "d", " ", "B", "o", "x">>

S_tplink == <<"t", "p", "l", "i", "n", "k", "_", "a", "r", "c", "h", "e", "r", "-", "c", "7">>

S_abc == <<"a", "b", "c">>

\* hrefs a releases page may carry in the discovery specification
HrefPool ==
  {H_21_02_0, H_21_02_7, H_21_02_10, H_22_03_0, H_other, H_19_07_3, H_21_02,
   H_noslash, H_four}

SeqsUpTo(S, n) == UNION {[1..m -> S] : m \in 0..n}

\* a page or listing: the request succeeded (ok) and the hrefs of its anchors
FailedPage == [ok |-> FALSE, hrefs |-> <<>>]

OkPage(hrefs) == [ok |-> TRUE, hrefs |-> hrefs]

\* the listing of the version discovery example
ExamplePage == OkPage(<<H_21_02_0, H_21_02_7, H_22_03_0, H_other>>)

DiscoveryPages ==
  {FailedPage, ExamplePage} \cup {OkPage(h) : h \in SeqsUpTo(HrefPool, MaxLinks)}

\* releases pages of the whole-run specification
PipelinePages ==
  {FailedPage, OkPage(<<H_other, H_19_07_3>>), OkPage(<<H_23_05_3>>), ExamplePage}

TargetListings ==
  {FailedPage, OkPage(<<>>), OkPage(<<H_sort, <<"/">>, H_ath79>>),
   OkPage(<<H_ath79, H_x86>>)}

SubtargetListings ==
  {FailedPage, OkPage(<<H_generic>>), OkPage(<<<<"/">>, H_generic, H_nand>>)}

\* profiles documents
TitlesEntry(vendor, model) ==
  JObj(<<K_titles>>,
       <<JList(<<JObj(<<K_vendor, K_model>>, <<JStr(vendor), JStr(model)>>)>>)>>)

ProfilesDoc(arch, profiles) == JObj(<<K_arch_packages, K_profiles>>, <<arch, profiles>>)

D_acme == ProfilesDoc(JStr(S_arm), JObj(<<S_dev1>>, <<TitlesEntry(S_Acme, S_X1)>>))

D_two ==
  ProfilesDoc(JStr(S_arm),
    JObj(<<S_dev1, S_dev2>>, <<TitlesEntry(S_Acme, S_X1), TitlesEntry(S_Bolt, S_Z9)>>))

D_title_only ==
  ProfilesDoc(JStr(S_arm),
    JObj(<<S_dev1>>, <<JObj(<<S_title>>, <<JStr(S_Old_Box)>>)>>))

D_defaults ==
  ProfilesDoc(JStr(S_arm),
    JObj(<<S_dev2>>, <<JObj(<<K_titles>>, <<JList(<<JObj(<<>>, <<>>)>>)>>)>>))

D_empty_title ==
  ProfilesDoc(JStr(S_arm), JObj(<<S_dev1>>, <<TitlesEntry(<<>>, <<>>)>>))

D_arch_int == ProfilesDoc(JNum(7), JObj(<<S_dev1>>, <<TitlesEntry(S_Acme, S_X1)>>))

D_list == ProfilesDoc(JStr(S_mips), JList(<<JStr(S_tplink)>>))

D_list_empty_id == ProfilesDoc(JStr(S_mips), JList(<<JStr(<<>>)>>))

D_list_int == ProfilesDoc(JStr(S_mips), JList(<<JStr(S_tplink), JNum(5)>>))

D_top_list == JList(<<JNum(1)>>)

D_empty == JObj(<<>>, <<>>)

D_no_arch == JObj(<<K_profiles>>, <<JObj(<<S_dev1>>, <<TitlesEntry(S_Acme, S_X1)>>)>>)

D_no_profiles == JObj(<<K_arch_packages>>, <<JStr(S_arm)>>)

D_empty_arch == ProfilesDoc(JStr(<<>>), JList(<<JStr(S_tplink)>>))

D_empty_profiles == ProfilesDoc(JStr(S_arm), JObj(<<>>, <<>>))

D_profiles_str == ProfilesDoc(JStr(S_arm), JStr(S_abc))

D_titles_str ==
  ProfilesDoc(JStr(S_arm), JObj(<<S_dev1>>, <<JObj(<<K_titles>>, <<JStr(S_abc)>>)>>))

D_details_str == ProfilesDoc(JStr(S_arm), JObj(<<S_dev1>>, <<JStr(S_abc)>>))

DocPool ==
  {D_acme, D_two, D_title_only, D_defaults, D_empty_title, D_arch_int, D_list,
   D_list_empty_id, D_list_int, D_top_list, D_empty, D_no_arch, D_no_profiles,
   D_empty_arch, D_empty_profiles, D_profiles_str, D_titles_str, D_details_str,
   JNull}

\* responses to one GET of a profiles URL
Body(enc, integrity, text, doc) ==
  [enc |-> enc, integrity |-> integrity, text |-> text, doc |-> doc]

NoBody == Body("plain", "ok", "badjson", JNull)

TransportError == [status |-> "exc", body |-> NoBody]

NotFound == [status |-> "404", body |-> NoBody]

Ok200(body) == [status |-> "200", body |-> body]

PlainJson(doc) == Ok200(Body("plain", "ok", "json", doc))

GzJson(doc) == Ok200(Body("gz", "ok", "json", doc))

XzJson(doc) == Ok200(Body("xz", "ok", "json", doc))

Extensions == {attempts[i].extension : i \in 1..Len(attempts)}

\* what the server holds for the URLs of one unit
Server(json, gz, xz) ==
  [e \in Extensions |->
     CASE e = ".json" -> json [] e = ".json.gz" -> gz [] e = ".json.xz" -> xz]

NoServer == Server(NotFound, NotFound, NotFound)

\* the servers of the whole-run specification: every document as plain
\* profiles.json, and the fallbacks and failures of the chain
UnitServers ==
  {Server(PlainJson(d), NotFound, NotFound) : d \in DocPool} \cup
  { NoServer,
    Server(TransportError, TransportError, TransportError),
    Server(NotFound, GzJson(D_acme), NotFound),
    Server(TransportError, Ok200(Body("plain", "ok", "badjson", JNull)),
           XzJson(D_list)),
    Server(Ok200(Body("plain", "ok", "badutf8", JNull)), GzJson(D_acme), NotFound),
    Server(NotFound, Ok200(Body("gz", "truncated", "json", D_acme)), NotFound),
    Server(NotFound, Ok200(Body("gz", "corrupt", "json", D_acme)), XzJson(D_acme)),
    Server(NotFound, Ok200(Body("gz", "badcrc", "json", D_acme)),
           Ok200(Body("xz", "truncated", "json", D_acme))) }

\* the responses of the fetch specification: every kind of answer for
\* every URL of the chain
FetchResponses ==
  {TransportError, NotFound} \cup
  {Ok200(b) : b \in
     { Body("plain", "ok", "json", D_acme), Body("plain", "ok", "json", JNull),
       Body("plain", "ok", "badjson", JNull), Body("plain", "ok", "badutf8", JNull),
       Body("gz", "ok", "json", D_list), Body("gz", "ok", "badjson", JNull),
       Body("gz", "truncated", "json", D_list), Body("gz", "corrupt", "json", D_list),
       Body("gz", "badcrc", "json", D_list),
       Body("xz", "ok", "json", D_two), Body("xz", "truncated", "json", D_two) }}

\* ------------------------------------------------------------------------
\* State
\* ------------------------------------------------------------------------
VARIABLES
  page,                  \* what the releases page answers in this run
  pc,                    \* where the script is
  links, li,             \* parser.links and the position of the loop of line 47
  latest_releases,       \* the dict get_latest_point_releases builds
  vi,                    \* position of the loop of line 115
  targets, ti,           \* targets and the position of the loop of line 125
  subtargets, si,        \* subtargets and the position of the loop of line 127
  units,                 \* (target, subtarget) units listed so far
  target_path,           \* target_path of the unit at hand
  server,                \* what the server holds for the URLs of that unit
  attempt,               \* position of the loop of line 88
  requests,              \* extensions requested for that unit, in order
  profiles_data,         \* what fetch_and_decompress_profiles returned
  all_processed_devices, \* the result list
  exit_status,           \* "running", then the exit status of the process
  exception,             \* the exception that ended the run, "none" if none
  devices_json           \* OUTPUT_FILE: untouched, written, or cut short

vars ==
  << page, pc, links, li, latest_releases, vi, targets, ti, subtargets, si,
     units, target_path, server, attempt, requests, profiles_data,
     all_processed_devices, exit_status, exception, devices_json >>

scrapeVars == << links, li, latest_releases >>

walkVars == << vi, targets, ti, subtargets, si, units, target_path >>

fetchVars == << server, attempt, requests, profiles_data >>

endVars == << exit_status, exception, devices_json >>

\* the version of the iteration of line 115
version == latest_releases[vi].version

\* the state after construction, for a releases page
Start(p) ==
  /\ page = p
  /\ pc = "get_releases"
  /\ links = <<>> /\ li = 1
  /\ latest_releases = <<>>
  /\ vi = 1
  /\ targets = <<>> /\ ti = 1
  /\ subtargets = <<>> /\ si = 1
  /\ units = 0
  /\ target_path = <<>>
  /\ server = NoServer
  /\ attempt = 1
  /\ requests = <<>>
  /\ profiles_data = JNull
  /\ all_processed_devices = <<>>
  /\ exit_status = "running"
  /\ exception = "none"
  /\ devices_json = [state |-> "untouched", content |-> <<>>]

Init == \E p \in PipelinePages : Start(p)

\* ------------------------------------------------------------------------
\* get_latest_point_releases and __main__
\* ------------------------------------------------------------------------
\* lines 35-42: the request fails, {} is returned
ScrapeFails ==
  /\ pc = "get_releases"
  /\ ~page.ok
  /\ pc' = "main"
  /\ UNCHANGED << page, scrapeVars, walkVars, fetchVars,
                  all_processed_devices, endVars >>

\* lines 35-45: the page is parsed
ScrapeOk ==
  /\ pc = "get_releases"
  /\ page.ok
  /\ links' = LinkFinder(page.hrefs)
  /\ li' = 1
  /\ latest_releases' = <<>>
  /\ pc' = "scan_links"
  /\ UNCHANGED << page, walkVars, fetchVars, all_processed_devices, endVars >>

\* lines 47-55: one link
ScanLink ==
  /\ pc = "scan_links"
  /\ li <= Len(links)
  /\ latest_releases' = ScanOne(latest_releases, links[li])
  /\ li' = li + 1
  /\ UNCHANGED << page, pc, links, walkVars, fetchVars,
                  all_processed_devices, endVars >>

\* lines 57-62: the dict is returned, empty or not
ScanDone ==
  /\ pc = "scan_links"
  /\ li > Len(links)
  /\ pc' = "main"
  /\ UNCHANGED << page, scrapeVars, walkVars, fetchVars,
                  all_processed_devices, endVars >>

\* lines 195-197: no stable versions
MainNoVersions ==
  /\ pc = "main"
  /\ latest_releases = <<>>
  /\ pc' = "exit"
  /\ exit_status' = "1"
  /\ UNCHANGED << page, scrapeVars, walkVars, fetchVars,
                  all_processed_devices, exception, devices_json >>

\* lines 193-194 and 109-113: fetch_all_devices_from_structure is entered
MainStart ==
  /\ pc = "main"
  /\ latest_releases # <<>>
  /\ all_processed_devices' = <<>>
  /\ vi' = 1
  /\ pc' = "version_loop"
  /\ UNCHANGED << page, scrapeVars, targets, ti, subtargets, si, units,
                  target_path, fetchVars, endVars >>

\* ------------------------------------------------------------------------
\* The walk over versions, targets and subtargets
\* ------------------------------------------------------------------------
\* lines 115-124: the targets of the next version; none, the version is skipped
ListTargets ==
  /\ pc = "version_loop"
  /\ vi <= Len(latest_releases)
  /\ \E listing \in TargetListings :
       LET found == GetSubdirectories(listing)
       IN  /\ targets' = found
           /\ IF found = <<>>
              THEN vi' = vi + 1 /\ ti' = ti /\ pc' = pc
              ELSE vi' = vi /\ ti' = 1 /\ pc' = "target_loop"
  /\ UNCHANGED << page, scrapeVars, subtargets, si, units, target_path,
                  fetchVars, all_processed_devices, endVars >>

\* lines 125-126: the subtargets of the next target
ListSubtargets ==
  /\ pc = "target_loop"
  /\ ti <= Len(targets)
  /\ \E listing \in SubtargetListings :
       LET found == GetSubdirectories(listing)
       IN  /\ units + Len(found) <= MaxUnits
           /\ subtargets' = found
           /\ units' = units + Len(found)
  /\ si' = 1
  /\ pc' = "subtarget_loop"
  /\ UNCHANGED << page, scrapeVars, vi, targets, ti, target_path, fetchVars,
                  all_processed_devices, endVars >>

\* line 125 is exhausted: line 174, and on to the next version
TargetsDone ==
  /\ pc = "target_loop"
  /\ ti > Len(targets)
  /\ vi' = vi + 1
  /\ pc' = "version_loop"
  /\ UNCHANGED << page, scrapeVars, targets, ti, subtargets, si, units,
                  target_path, fetchVars, all_processed_devices, endVars >>

\* line 127 is exhausted: on to the next target
SubtargetsDone ==
  /\ pc = "subtarget_loop"
  /\ si > Len(subtargets)
  /\ ti' = ti + 1
  /\ pc' = "target_loop"
  /\ UNCHANGED << page, scrapeVars, vi, targets, subtargets, si, units,
                  target_path, fetchVars, all_processed_devices, endVars >>

\* lines 127-132: the next unit; fetch_and_decompress_profiles is called
StartFetch ==
  /\ pc = "subtarget_loop"
  /\ si <= Len(subtargets)
  /\ target_path' = TargetPath(targets[ti], subtargets[si])
  /\ \E srv \in UnitServers : server' = srv
  /\ attempt' = 1
  /\ requests' = <<>>
  /\ pc' = "fetch"
  /\ UNCHANGED << page, scrapeVars, vi, targets, ti, subtargets, si, units,
                  profiles_data, all_processed_devices, endVars >>

\* ------------------------------------------------------------------------
\* fetch_and_decompress_profiles
\* ------------------------------------------------------------------------
\* an exception nothing catches: the traceback is printed, exit status 1
Raise(exc) ==
  /\ pc' = "exit"
  /\ exit_status' = "1"
  /\ exception' = exc

\* lines 88-97: the attempt answers 200 and decodes; its data is returned
AttemptReturns200 ==
  /\ pc = "fetch"
  /\ attempt <= Len(attempts)
  /\ LET a == attempts[attempt]
         resp == server[a.extension]
     IN  /\ AttemptReturns(resp, a.decompressor)
         /\ requests' = Append(requests, a.extension)
         /\ profiles_data' = resp.body.doc
  /\ pc' = "normalize"
  /\ UNCHANGED << page, scrapeVars, walkVars, server, attempt,
                  all_processed_devices, endVars >>

\* lines 88-100: the attempt answers another status, or raises what line 98
\* catches; the next format is tried
AttemptContinues ==
  /\ pc = "fetch"
  /\ attempt <= Len(attempts)
  /\ LET a == attempts[attempt]
         resp == server[a.extension]
         exc == AttemptException(resp, a.decompressor)
     IN  /\ ~AttemptReturns(resp, a.decompressor)
         /\ exc = "none" \/ exc \in CaughtExceptions
         /\ requests' = Append(requests, a.extension)
  /\ attempt' = attempt + 1
  /\ UNCHANGED << page, pc, scrapeVars, walkVars, server, profiles_data,
                  all_processed_devices, endVars >>

\* lines 88-98: the attempt raises what line 98 does not catch
AttemptRaises ==
  /\ pc = "fetch"
  /\ attempt <= Len(attempts)
  /\ LET a == attempts[attempt]
         resp == server[a.extension]
         exc == AttemptException(resp, a.decompressor)
     IN  /\ exc # "none" /\ exc \notin CaughtExceptions
         /\ requests' = Append(requests, a.extension)
         /\ Raise(exc)
  /\ UNCHANGED << page, scrapeVars, walkVars, server, attempt, profiles_data,
                  all_processed_devices, devices_json >>

\* line 102: every attempt failed, None is returned
FetchExhausted ==
  /\ pc = "fetch"
  /\ attempt > Len(attempts)
  /\ profiles_data' = JNull
  /\ pc' = "normalize"
  /\ UNCHANGED << page, scrapeVars, walkVars, server, attempt, requests,
                  all_processed_devices, endVars >>

\* ------------------------------------------------------------------------
\* The records of one unit, and the end of the run
\* ------------------------------------------------------------------------
\* lines 134-172 run through: on to the next subtarget
NormalizeOk ==
  /\ pc = "normalize"
  /\ LET r == NormalizeUnit(profiles_data, target_path, version)
     IN  /\ r.exc = "none"
         /\ all_processed_devices' = all_processed_devices \o r.devices
  /\ si' = si + 1
  /\ pc' = "subtarget_loop"
  /\ UNCHANGED << page, scrapeVars, vi, targets, ti, subtargets, units,
                  target_path, fetchVars, endVars >>

\* lines 134-172 raise
NormalizeRaises ==
  /\ pc = "normalize"
  /\ LET r == NormalizeUnit(profiles_data, target_path, version)
     IN  /\ r.exc # "none"
         /\ all_processed_devices' = all_processed_devices \o r.devices
         /\ Raise(r.exc)
  /\ UNCHANGED << page, scrapeVars, walkVars, fetchVars, devices_json >>

\* line 115 is exhausted and lines 176-178 find no record
FinishNoDevices ==
  /\ pc = "version_loop"
  /\ vi > Len(latest_releases)
  /\ NoDevices(all_processed_devices)
  /\ pc' = "exit"
  /\ exit_status' = "1"
  /\ UNCHANGED << page, scrapeVars, walkVars, fetchVars,
                  all_processed_devices, exception, devices_json >>

\* line 115 is exhausted and lines 180-189 sort and write; open() or the
\* dump may fail with IOError
SortAndWrite ==
  /\ pc = "version_loop"
  /\ vi > Len(latest_releases)
  /\ ~NoDevices(all_processed_devices)
  /\ all_processed_devices' = SortDevices(all_processed_devices)
  /\ \E io \in {"ok", "open fails", "dump fails"} :
       CASE io = "ok" ->
              /\ devices_json' = [state |-> "written",
                                  content |-> all_processed_devices']
              /\ exit_status' = "0"
         [] io = "open fails" ->
              /\ devices_json' = devices_json
              /\ exit_status' = "1"
         [] io = "dump fails" ->
              /\ devices_json' = [state |-> "cut short", content |-> <<>>]
              /\ exit_status' = "1"
  /\ pc' = "exit"
  /\ UNCHANGED << page, scrapeVars, walkVars, fetchVars, exception >>

\* ------------------------------------------------------------------------
\* Specifications
\* ------------------------------------------------------------------------
\* the whole run
Next ==
  \/ ScrapeFails \/ ScrapeOk \/ ScanLink \/ ScanDone
  \/ MainNoVersions \/ MainStart
  \/ ListTargets \/ ListSubtargets \/ TargetsDone \/ SubtargetsDone
  \/ StartFetch
  \/ AttemptReturns200 \/ AttemptContinues \/ AttemptRaises \/ FetchExhausted
  \/ NormalizeOk \/ NormalizeRaises
  \/ FinishNoDevices \/ SortAndWrite

Spec == Init /\ [][Next]_vars

\* get_latest_point_releases alone, over every releases page of the bound
InitDiscovery == \E p \in DiscoveryPages : Start(p)

NextDiscovery == ScrapeFails \/ ScrapeOk \/ ScanLink \/ ScanDone

SpecDiscovery == InitDiscovery /\ [][NextDiscovery]_vars

\* fetch_and_decompress_profiles alone, called for the unit ath79/generic of
\* 23.05.3, over every server of the bound
RECURSIVE ScanAll(_, _)
ScanAll(releases, ls) ==
  IF ls = <<>> THEN releases ELSE ScanAll(ScanOne(releases, Head(ls)), Tail(ls))

InitFetch ==
  /\ page = OkPage(<<H_23_05_3>>)
  /\ pc = "fetch"
  /\ links = LinkFinder(page.hrefs) /\ li = Len(links) + 1
  /\ latest_releases = ScanAll(<<>>, links)
  /\ vi = 1
  /\ targets = <<H_ath79>> /\ ti = 1
  /\ subtargets = <<H_generic>> /\ si = 1
  /\ units = 1
  /\ target_path = TargetPath(H_ath79, H_generic)
  /\ server \in [Extensions -> FetchResponses]
  /\ attempt = 1
  /\ requests = <<>>
  /\ profiles_data = JNull
  /\ all_processed_devices = <<>>
  /\ exit_status = "running"
  /\ exception = "none"
  /\ devices_json = [state |-> "untouched", content |-> <<>>]

NextFetch ==
  AttemptReturns200 \/ AttemptContinues \/ AttemptRaises \/ FetchExhausted

SpecFetch == InitFetch /\ [][NextFetch]_vars

\* ------------------------------------------------------------------------
\* Properties
\* ------------------------------------------------------------------------
Range(seq) == {seq[i] : i \in 1..Len(seq)}

\* C1: a run whose version discovery fails or finds no supported version, or
\* that produces no device record, ends with a non-zero exit status, and
\* devices.json is at no moment opened or written while there is no record.
C1_ZeroYieldIsFatal ==
  /\ all_processed_devices = <<>> => devices_json.state = "untouched"
  /\ latest_releases = <<>> => all_processed_devices = <<>>
  /\ pc = "exit" =>
       /\ exit_status # "running"
       /\ all_processed_devices = <<>> => exit_status = "1"

\* a run that walked units, found no record in any and has ended
C1_Witness ==
  /\ pc = "exit"
  /\ latest_releases # <<>>
  /\ units >= 1
  /\ exception = "none"
  /\ all_processed_devices = <<>>
  /\ exit_status = "1"

\* C2: every record of the result list and of the written file has the five
\* fields title, target, profile, version and arch as non-empty strings.
NonEmptyFields(d) ==
  /\ d.title # <<>>
  /\ d.target # <<>>
  /\ d.profile # <<>>
  /\ d.version # <<>>
  /\ d.arch.k = "str" /\ d.arch.s # <<>>

C2_FieldsNonEmpty ==
  /\ \A i \in 1..Len(all_processed_devices) :
       NonEmptyFields(all_processed_devices[i])
  /\ \A i \in 1..Len(devices_json.content) :
       NonEmptyFields(devices_json.content[i])

\* C3: the written list is ascending by title and, among equal titles,
\* descending by version.
C3_TitleAscending ==
  devices_json.state = "written" =>
    \A i, j \in 1..Len(devices_json.content) :
      i < j =>
        LET r1 == devices_json.content[i]
            r2 == devices_json.content[j]
        IN  /\ ~StrLess(r2.title, r1.title)
            /\ r1.title = r2.title => ~StrLess(r1.version, r2.version)

\* the chain of candidates the claims C4 and C10 speak of
Candidates == <<".json", ".json.gz", ".json.xz">>

\* the candidate answers HTTP 200 with a body that decodes: plain JSON for
\* profiles.json, an intact gzip or xz stream of JSON for the other two
AnswersAndDecodes(extension) ==
  LET resp == server[extension]
      container == CASE extension = ".json" -> "plain"
                     [] extension = ".json.gz" -> "gz"
                     [] extension = ".json.xz" -> "xz"
  IN  /\ resp.status = "200"
      /\ resp.body.enc = container
      /\ resp.body.integrity = "ok"
      /\ resp.body.text = "json"

\* C4: once the call is over, if some candidate answers 200 and decodes, the
\* call has returned the data of the first such candidate and has requested
\* the candidates up to it and none after it.
C4_FirstGoodCandidateReturned ==
  LET good == {i \in 1..Len(Candidates) : AnswersAndDecodes(Candidates[i])}
  IN  (pc # "fetch" /\ good # {}) =>
        LET first == CHOOSE i \in good : \A j \in good : i <= j
        IN  /\ pc = "normalize"
            /\ profiles_data = server[Candidates[first]].body.doc
            /\ requests = SubSeq(Candidates, 1, first)

\* C5: no failure on the fetch of a listing or of a profiles document ends the
\* run with an exception: the run goes on to the remaining units.
C5_NoUnitFailureAborts == exception = "none"

\* C6: when the releases page was fetched, the mapping returned has as keys
\* exactly the supported major versions with a link of the form d.d.d/, each
\* once, and as value the greatest, as strings, of the versions of that major
\* version among the links.
VersionsOf(major) ==
  {FullVersion(l) : l \in {m \in Range(links) :
      VersionPatternMatches(m) /\ MajorVersion(FullVersion(m)) = major}}

K_title == <<"t", "i", "t", "l", "e">>

HasField(d, key) == \E i \in 1..Len(d.keys) : d.keys[i] = key

FieldOf(d, key) == d.items[CHOOSE i \in 1..Len(d.keys) : d.keys[i] = key]

C7_DirectTitleUsed ==
  ( /\ pc = "subtarget_loop" /\ si > 1
    /\ profiles_data.k = "dict"
    /\ HasField(profiles_data, K_arch_packages)
    /\ HasField(profiles_data, K_profiles)
    /\ FieldOf(profiles_data, K_arch_packages).k = "str"
    /\ FieldOf(profiles_data, K_arch_packages).s # <<>>
    /\ FieldOf(profiles_data, K_profiles).k = "dict" ) =>
    LET profiles == FieldOf(profiles_data, K_profiles)
    IN  \A i \in 1..Len(profiles.keys) :
          ( /\ profiles.items[i].k = "dict"
            /\ ~HasField(profiles.items[i], K_titles)
            /\ HasField(profiles.items[i], K_title)
            /\ FieldOf(profiles.items[i], K_title).k = "str"
            /\ FieldOf(profiles.items[i], K_title).s # <<>> ) =>
            \E d \in Range(all_processed_devices) :
              /\ d.title = FieldOf(profiles.items[i], K_title).s
              /\ d.profile = profiles.keys[i]
              /\ d.target = target_path
              /\ d.version = version

\* C9: a fetched document (a JSON object) whose arch_packages or profiles is
\* missing or empty adds no record, and the walk goes on to the next subtarget.
MissingOrEmpty(d, key) ==
  \/ ~HasField(d, key)
  \/ FieldOf(d, key) \in {JNull, JStr(<<>>), JList(<<>>), JObj(<<>>, <<>>)}

LacksArchOrProfiles(d) ==
  /\ d.k = "dict"
  /\ MissingOrEmpty(d, K_arch_packages) \/ MissingOrEmpty(d, K_profiles)

C9_IncompleteDocumentSkipped ==
  [][ (pc = "normalize" /\ LacksArchOrProfiles(profiles_data)) =>
        /\ all_processed_devices' = all_processed_devices
        /\ exception' = "none"
        /\ pc' = "subtarget_loop"
        /\ si' = si + 1 ]_vars

\* a document with profiles and no arch_packages was skipped after an earlier
\* unit had given records
C9_Witness ==
  /\ pc = "subtarget_loop" /\ si > 1
  /\ LacksArchOrProfiles(profiles_data)
  /\ ~MissingOrEmpty(profiles_data, K_profiles)
  /\ all_processed_devices # <<>>
  /\ \A d \in Range(all_processed_devices) : d.target # target_path

\* C10, as the code has it: the requests of a unit are the first ones of
\* profiles.json, profiles.json.gz, profiles.json.xz in that order, and none
\* follows a request that answered 200 and decoded.
IsPrefix(a, b) == Len(a) <= Len(b) /\ a = SubSeq(b, 1, Len(a))

NoneAfterSuccess ==
  \A i \in 1..Len(requests) :
    AnswersAndDecodes(requests[i]) => i = Len(requests) /\ pc # "fetch"

C10_ThreeAttemptsInOrder ==
  /\ IsPrefix(requests, Candidates)
  /\ NoneAfterSuccess

\* profiles.json failed, profiles.json.gz answered and decoded, and
\* profiles.json.xz was not requested
C10_Witness ==
  /\ pc = "normalize"
  /\ requests = <<".json", ".json.gz">>
  /\ AnswersAndDecodes(".json.gz")
  /\ profiles_data = server[".json.gz"].body.doc

\* C10, as stated: four attempts at most, the bare profiles_base first.
C10_FourAttemptsBareFirst ==
  /\ IsPrefix(requests, <<"">> \o Candidates)
  /\ NoneAfterSuccess

====
